---- MODULE Spec2Model ----
(***************************************************************************)
(* Facial-analysis service: the upload operation (routers/analysis.py),    *)
(* the image gatekeeper (services/image_service.py) and the analysis with  *)
(* retries, response interpretation and reconciliation                     *)
(* (services/ai_service.py).                                               *)
(*                                                                         *)
(* Numbers.  A score is kept in hundredths (7.5 is 750), a mean of four    *)
(* one-decimal scores in thousandths (sum * 10 / 4 is exact).  Python      *)
(* evaluates the source on IEEE-754 doubles; where the double result       *)
(* differs from the decimal one (a tie in round(), the comparison with     *)
(* 1.5 at a decimal deviation of exactly 1.5) the outcome is taken from    *)
(* the double evaluation of the source line, tabulated for the values the  *)
(* model draws (MeanDoubleAbove, DeviationAbove).                          *)
(***************************************************************************)
EXTENDS Integers, Sequences, FiniteSets, TLC

(***************************************************************************)
(* JSON values of a model response.                                        *)
(***************************************************************************)
Num(h) == [t |-> "num", v |-> h, s |-> <<>>]
Str(cs) == [t |-> "str", v |-> 0, s |-> cs]
Null == [t |-> "null", v |-> 0, s |-> <<>>]

None == [none |-> TRUE]

\* an exception that leaves a function instead of a return value
Exception == [raised |-> TRUE]

Abs(x) == IF x < 0 THEN -x ELSE x
Max(a, b) == IF a >= b THEN a ELSE b
Min(a, b) == IF a <= b THEN a ELSE b

(***************************************************************************)
(* FacialAnalysisService.__init__                                          *)
(***************************************************************************)
max_retries == 3
retry_delay == 2

(***************************************************************************)
(* str.replace(',', '.') and float() on a string of characters.  float()   *)
(* is modelled on unsigned decimal literals (digits, at most one point,    *)
(* at least one digit, at most two fractional digits); anything else       *)
(* raises ValueError.                                                      *)
(***************************************************************************)
Digits == {"0", "1", "2", "3", "4", "5", "6", "7", "8", "9"}

DigitVal(c) ==
    CASE c = "0" -> 0 [] c = "1" -> 1 [] c = "2" -> 2 [] c = "3" -> 3
      [] c = "4" -> 4 [] c = "5" -> 5 [] c = "6" -> 6 [] c = "7" -> 7
      [] c = "8" -> 8 [] c = "9" -> 9

replace_comma(cs) == [i \in DOMAIN cs |-> IF cs[i] = "," THEN "." ELSE cs[i]]

RECURSIVE DigitsValue(_)
DigitsValue(cs) ==
    IF cs = <<>> THEN 0
    ELSE 10 * DigitsValue(SubSeq(cs, 1, Len(cs) - 1)) + DigitVal(cs[Len(cs)])

float_of_str(cs) ==
    LET points == {i \in DOMAIN cs : cs[i] = "."}
        others == {i \in DOMAIN cs : cs[i] # "."}
        p == IF points = {} THEN Len(cs) + 1 ELSE CHOOSE i \in points : TRUE
        whole == SubSeq(cs, 1, p - 1)
        frac == SubSeq(cs, p + 1, Len(cs))
        wellFormed == /\ Cardinality(points) <= 1
                      /\ others # {}
                      /\ \A i \in others : cs[i] \in Digits
                      /\ Len(frac) <= 2
    IN  IF ~wellFormed THEN [ok |-> FALSE, v |-> 0]
        ELSE [ok |-> TRUE,
              v |-> 100 * DigitsValue(whole)
                    + (IF Len(frac) = 1 THEN 10 * DigitsValue(frac)
                       ELSE DigitsValue(frac))]

(***************************************************************************)
(* round(x, 1) of a non-negative double given in thousandths; the result   *)
(* is in hundredths.  A decimal tie (x.x5) that is a binary fraction       *)
(* (a multiple of 0.25) is a tie of the double too and goes to the even    *)
(* digit; any other decimal tie is no tie of the double, which lies        *)
(* either above it (above = TRUE, rounds up) or below it.                  *)
(***************************************************************************)
round1(x, above) ==
    LET q == x \div 100
        r == x % 100
    IN  IF r < 50 THEN 10 * q
        ELSE IF r > 50 THEN 10 * (q + 1)
        ELSE IF x % 250 = 0 THEN (IF q % 2 = 0 THEN 10 * q ELSE 10 * (q + 1))
        ELSE IF above THEN 10 * (q + 1) ELSE 10 * q


(***************************************************************************)
(* A text field of the response: lead and trail are the lengths of the     *)
(* surrounding whitespace, core the length of what strip() leaves.         *)
(***************************************************************************)
Text(lead, core, trail) == [t |-> "text", v |-> core, s |-> <<lead, trail>>]

strip_len(x) == x.v

(***************************************************************************)
(* _parse_ai_response                                                      *)
(***************************************************************************)
required_keys ==
    {"status", "overall_score", "symmetry_score", "proportion_score",
     "skin_quality_score", "features_harmony_score",
     "scientific_explanation", "recommendations"}

valid_statuses == {"denied", "improvable", "feasible"}

score_keys ==
    {"overall_score", "symmetry_score", "proportion_score",
     "skin_quality_score", "features_harmony_score"}

detail_keys ==
    {"symmetry_score", "proportion_score", "skin_quality_score",
     "features_harmony_score"}

optional_keys ==
    {"eye_appeal_score", "nose_harmony_score", "lip_aesthetics_score",
     "jawline_definition_score", "cheekbone_prominence_score",
     "facial_composition_score"}

Raised == [ok |-> FALSE, v |-> 0]

clamp_missing(h) == h

\* max(0, min(10, score)), in hundredths
clamp(h) == IF 0 <= h /\ h <= 1000 THEN h ELSE Max(0, Min(1000, h))

\* One pass of the loop over score_keys: the normalised score, or the
\* ValueError (float() of a non-numeric string, a value that is no number).
normalize_score(score) ==
    LET f == IF score.t = "str" THEN float_of_str(replace_comma(score.s))
             ELSE IF score.t = "num" THEN [ok |-> TRUE, v |-> score.v]
             ELSE Raised
    IN  IF ~f.ok THEN Raised
        ELSE [ok |-> TRUE, v |-> round1(10 * clamp(f.v), FALSE)]

\* len(text) < 50: the surrounding whitespace is counted
text_rejected_unstripped(x) == x.t # "text" \/ x.v + x.s[1] + x.s[2] < 50

\* len(text.strip()) < 50; strip() of a value that is no string raises.
text_rejected(x) == x.t # "text" \/ strip_len(x) < 50

\* _parse_ai_response without lines 311-315: the status is left as reported
_parse_ai_response_status_unchecked(text) ==
    IF text.json \in {"none", "invalid"} THEN [ok |-> FALSE, data |-> None]
    ELSE
      LET d == text.data
          norm == [k \in score_keys |-> normalize_score(d[k])]
      IN  IF \E k \in required_keys : k \notin DOMAIN d
            THEN [ok |-> FALSE, data |-> None]
          ELSE IF \E k \in score_keys : ~norm[k].ok
            THEN [ok |-> FALSE, data |-> None]
          ELSE IF text_rejected(d["scientific_explanation"])
                  \/ text_rejected(d["recommendations"])
            THEN [ok |-> FALSE, data |-> None]
          ELSE [ok |-> TRUE,
                data |-> [k \in DOMAIN d |->
                            IF k \in score_keys THEN norm[k].v ELSE d[k]]]

\* text.json: "none" (no {...} span), "invalid" (json.loads fails before and
\* after _repair_json), "repaired" (fails before, succeeds after), "valid".
_parse_ai_response(text) ==
    IF text.json \in {"none", "invalid"} THEN [ok |-> FALSE, data |-> None]
    ELSE
      LET d == text.data
          norm == [k \in score_keys |-> normalize_score(d[k])]
      IN  IF \E k \in required_keys : k \notin DOMAIN d
            THEN [ok |-> FALSE, data |-> None]
          ELSE IF \E k \in score_keys : ~norm[k].ok
            THEN [ok |-> FALSE, data |-> None]
          ELSE IF text_rejected(d["scientific_explanation"])
                  \/ text_rejected(d["recommendations"])
            THEN [ok |-> FALSE, data |-> None]
          ELSE [ok |-> TRUE,
                data |-> [k \in DOMAIN d |->
                            IF k = "status"
                              THEN (IF d[k] \in valid_statuses THEN d[k]
                                    ELSE "feasible")
                            ELSE IF k \in score_keys THEN norm[k].v
                            ELSE d[k]]]

(***************************************************************************)
(* _validate_analysis_result.  sum4 is sum(scores) in hundredths; the      *)
(* average sum4 / 4 is sum4 * 10 / 4 thousandths.                          *)
(***************************************************************************)
sum4(result) ==
    result["symmetry_score"] + result["proportion_score"]
      + result["skin_quality_score"] + result["features_harmony_score"]

\* <<overall, sum>> at a decimal deviation of exactly 1.5 for which the
\* double abs(overall_score - average_score) is 1.5000000000000009
\* (6.8 against 8.3); the other such pairs the model draws (7.5 against 9.0,
\* 7.4 against 8.9) give exactly 1.5.
DeviationAbove == {<<680, 3320>>}

\* abs(overall_score - average_score) > 1.5
deviation_exceeds(overall, s) ==
    \/ Abs(4 * overall - s) > 600
    \/ (Abs(4 * overall - s) = 600 /\ <<overall, s>> \in DeviationAbove)

\* Sums whose average is a decimal tie that the double sum(scores) / 4 lies
\* above (4.15, 6.65, 8.65, 9.15); it lies below the tie 5.55 (sum 22.2).
MeanDoubleAbove == {1660, 2660, 3460, 3660}

_validate_analysis_result_unreconciled(result) == result

_validate_analysis_result(result) ==
    LET s == sum4(result)
    IN  IF deviation_exceeds(result["overall_score"], s)
          THEN [result EXCEPT
                  !["overall_score"] = round1((s * 10) \div 4, s \in MeanDoubleAbove)]
          ELSE result

(***************************************************************************)
(* _get_default_analysis_result                                            *)
(***************************************************************************)
default_without_marker ==
    [status |-> "improvable",
     overall_score |-> 500,
     symmetry_score |-> 500,
     proportion_score |-> 500,
     skin_quality_score |-> 500,
     features_harmony_score |-> 500,
     scientific_explanation |-> Text(0, 600, 0),
     recommendations |-> Text(0, 700, 0),
     attempt |-> 1]

_get_default_analysis_result ==
    [status |-> "improvable",
     overall_score |-> 500,
     symmetry_score |-> 500,
     proportion_score |-> 500,
     skin_quality_score |-> 500,
     features_harmony_score |-> 500,
     scientific_explanation |-> Text(0, 600, 0),
     recommendations |-> Text(0, 700, 0),
     attempt |-> 1,
     error |-> TRUE]

(***************************************************************************)
(* analyze_facial_attractiveness: the pieces of its retry loop.            *)
(***************************************************************************)
last_attempt_off_by_one(a) == a = max_retries

\* line 69: the attempt after which the exception is raised again
last_attempt(a) == a = max_retries - 1

sleep_time_growing(a) == retry_delay * (a + 1)

\* line 71: the delay after the failure of attempt a
sleep_time(a) == retry_delay

attempt_number_zero_based(a) == a

\* line 61
attempt_number(a) == a + 1

outer_except_reraises == Exception

\* lines 73-76: what the function returns when an exception reaches the
\* outer handler
outer_except == _get_default_analysis_result


(***************************************************************************)
(* ImageProcessingService.  An uploaded image is described by what the     *)
(* service reads from it: whether Image.open decodes its header, its size, *)
(* whether verify() accepts it and whether its pixel data loads.           *)
(* Its pixel data, once converted to RGB, are flat regions of equal area,   *)
(* each of one colour <<r, g, b>>; fails names the enhancement sub-steps   *)
(* that raise on it.                                                       *)
(***************************************************************************)
Grey(v) == <<v, v, v>>

Image(w, h) == [decodable |-> TRUE, width |-> w, height |-> h,
                verifies |-> TRUE, loads |-> TRUE,
                pixels |-> <<Grey(200)>>, fails |-> {}]

min_size_smaller == <<100, 200>>

min_size == <<200, 200>>

validate_image(image) ==
    IF ~image.decodable THEN FALSE
    ELSE IF image.width < min_size[1] \/ image.height < min_size[2] THEN FALSE
    ELSE IF image.width > 4000 \/ image.height > 4000 THEN FALSE
    ELSE IF ~image.verifies THEN FALSE
    \* aspect_ratio = width / height; aspect_ratio > 3 or aspect_ratio < 0.33
    ELSE IF image.width > 3 * image.height
            \/ 100 * image.width < 33 * image.height THEN FALSE
    ELSE TRUE

max_size == <<1024, 1024>>

Ceil(a, b) == IF a % b = 0 THEN a \div b ELSE (a \div b) + 1

thumbnail_unchanged(size, box) == size

\* Image.thumbnail(box) on an image of the given size (Pillow): unchanged
\* when it fits the box; otherwise one side becomes the side of the box and
\* the other is floor or ceil of the proportional length, whichever keeps
\* the aspect ratio closer (floor on a tie), and at least 1.
thumbnail(size, box) ==
    LET w == size[1]
        h == size[2]
        x == box[1]
        y == box[2]
    IN  IF x >= w /\ y >= h THEN size
        ELSE IF x * h >= w * y
          \* x / y >= aspect: key abs(aspect - n / y)
          THEN LET f == (y * w) \div h
                   c == Ceil(y * w, h)
                   n == IF Abs(w * y - f * h) <= Abs(w * y - c * h) THEN f ELSE c
               IN  <<Max(n, 1), y>>
          \* key 0 if n == 0 else abs(aspect - x / n)
          ELSE LET f == (x * h) \div w
                   c == Ceil(x * h, w)
                   n == IF f = 0 THEN f
                        ELSE IF Abs(w * f - x * h) * c <= Abs(w * c - x * h) * f
                          THEN f ELSE c
               IN  <<x, Max(n, 1)>>

_resize_image(size) == thumbnail(size, max_size)

min_face_size == 300

\* <<side, smaller side>> for which the double side * (300 / smaller side)
\* lies just below the whole number the exact product is, so that int()
\* gives one less (281 * (300 / 281) is 299.99999999999994)
UpscaleTruncatedBelow == {<<281, 281>>}

\* int(side * factor) with factor = min_face_size / min(image.size)
upscaled(side, smaller) ==
    IF <<side, smaller>> \in UpscaleTruncatedBelow
      THEN (side * min_face_size) \div smaller - 1
      ELSE (side * min_face_size) \div smaller

\* the size of the image _optimize_for_facial_analysis returns (the
\* brightness steps keep the size)
_optimize_for_facial_analysis(size) ==
    LET smaller == Min(size[1], size[2])
    IN  IF smaller < min_face_size
          THEN <<upscaled(size[1], smaller), upscaled(size[2], smaller)>>
          ELSE size

(***************************************************************************)
(* The pixel data through the Normalizer.  ImageEnhance works by           *)
(* Image.blend(degenerate, image, factor): every channel value becomes     *)
(* degenerate + factor * (value - degenerate), cut to 0..255 and           *)
(* truncated.  The factors are in percent.  Sharpness and SMOOTH_MORE      *)
(* weigh a pixel against its neighbours and leave a flat region as it is,  *)
(* as do thumbnail and resize.                                             *)
(***************************************************************************)
\* ImageEnhance.Brightness: the degenerate image is black
Brightness(pixels, factor) ==
    [n \in DOMAIN pixels |->
       [c \in 1..3 |-> Min(255, (pixels[n][c] * factor) \div 100)]]

\* convert("L") of one pixel
luma(pixel) ==
    (19595 * pixel[1] + 38470 * pixel[2] + 7471 * pixel[3] + 32768) \div 65536

RECURSIVE sum_luma(_)
sum_luma(pixels) ==
    IF pixels = <<>> THEN 0 ELSE luma(Head(pixels)) + sum_luma(Tail(pixels))

\* ImageEnhance.Contrast: the degenerate image is the grey of the mean
\* luma, int(mean + 0.5)
Contrast(pixels, factor) ==
    LET n == Len(pixels)
        mean == (2 * sum_luma(pixels) + n) \div (2 * n)
    IN  [i \in DOMAIN pixels |->
           [c \in 1..3 |->
              Max(0, Min(255, (100 * mean + factor * (pixels[i][c] - mean))
                                \div 100))]]

sub_steps == <<"contrast", "brightness", "sharpness", "smoothing">>

\* each sub-step in a try of its own: one that raises is passed over
_enhance_image_step_by_step(image) ==
    LET contrasted == IF "contrast" \in image.fails THEN image.pixels
                      ELSE Contrast(image.pixels, 110)
        brightened == IF "brightness" \in image.fails THEN contrasted
                      ELSE Brightness(contrasted, 102)
    IN  [pixels |-> brightened,
         applied |-> SelectSeq(sub_steps, LAMBDA step : step \notin image.fails)]

\* _enhance_image: the four sub-steps inside one try; the except branch
\* returns the image the function was given
_enhance_image(image) ==
    IF image.fails = {}
      THEN [pixels |-> Brightness(Contrast(image.pixels, 110), 102),
            applied |-> sub_steps]
      ELSE [pixels |-> image.pixels, applied |-> <<>>]

\* lines 202-208: histogram() of an RGB image is the 256 counts of the red
\* band followed by those of the green and of the blue band, so that
\* histogram[:85] are the counts of the red values 0..84; total_pixels
\* counts three values per pixel.  Both are in regions.
histogram_dark(pixels) ==
    LET dark_pixels == Cardinality({n \in DOMAIN pixels : pixels[n][1] < 85})
        total_pixels == Len(pixels) * 3
    IN  10 * dark_pixels > 6 * total_pixels

\* _optimize_for_facial_analysis, lines 195-214, on the pixel data
_optimize_for_facial_analysis_pixels(pixels) ==
    LET gamma_corrected == Brightness(pixels, 110)
    IN  IF histogram_dark(gamma_corrected)
          THEN [pixels |-> Brightness(gamma_corrected, 115),
                applied |-> <<"Brightness(1.1)", "Brightness(1.15)">>]
          ELSE [pixels |-> gamma_corrected,
                applied |-> <<"Brightness(1.1)">>]

\* process_image returns the processed bytes (here: their size and pixel
\* data; conversion to RGB and _enhance_image keep the size), or raises when
\* the pixel data cannot be loaded (convert / copy of a truncated file).
\* enhanced and optimized name what _enhance_image and the facial pass
\* applied, entering is the pixel data the facial pass was given.
process_image(image) ==
    IF image.loads
      THEN LET enhanced == _enhance_image(image)
               optimized == _optimize_for_facial_analysis_pixels(enhanced.pixels)
           IN  [ok |-> TRUE,
                size |-> _optimize_for_facial_analysis(
                             _resize_image(<<image.width, image.height>>)),
                enhanced |-> enhanced.applied,
                entering |-> enhanced.pixels,
                optimized |-> optimized.applied,
                pixels |-> optimized.pixels]
      ELSE [ok |-> FALSE, size |-> <<0, 0>>]

(***************************************************************************)
(* The inputs: uploads and the outcomes of one remote call.                *)
(***************************************************************************)
Images ==
    { Image(400, 400), Image(100, 400), Image(4001, 2000), Image(1204, 400),
      [Image(400, 400) EXCEPT !.decodable = FALSE],
      [Image(400, 400) EXCEPT !.verifies = FALSE],
      [Image(400, 400) EXCEPT !.loads = FALSE] }

\* content_type.startswith('image/'), for the content types of Uploads
starts_with_image(content_type) == content_type = "image/jpeg"

\* content_type: an image type, another type, or no declared type
Uploads ==
    [content_type : {"image/jpeg"}, image : Images]
      \cup [content_type : {"text/plain", "None"}, image : {Image(400, 400)}]

\* The response of the test fixture (tests/conftest.py), without its
\* optional sub-scores.
BaseData ==
    [status |-> "feasible",
     overall_score |-> Num(750),
     symmetry_score |-> Num(800),
     proportion_score |-> Num(720),
     skin_quality_score |-> Num(780),
     features_harmony_score |-> Num(700),
     scientific_explanation |-> Text(0, 60, 0),
     recommendations |-> Text(0, 60, 0)]

Statuses == {"feasible", "denied", "improvable", "ok"}
OverallValues == {Num(0), Num(680), Num(740), Num(750), Num(1000)}
DetailValues == {Num(0), Num(830), Num(900), Num(1000)}

\* every status with every combination of in-range one-decimal scores
ScoreData ==
    { [BaseData EXCEPT !.status = st, !.overall_score = o,
                       !.symmetry_score = d[1], !.proportion_score = d[2],
                       !.skin_quality_score = d[3],
                       !.features_harmony_score = d[4]] :
        st \in Statuses, o \in OverallValues,
        d \in DetailValues \X DetailValues \X DetailValues \X DetailValues }

\* one score out of range, with more decimals, a string, or no number
OddValues ==
    { Num(-50), Num(1250), Num(726), Num(725),
      Str(<<"7", ",", "5">>), Str(<<"8", ".", "3">>), Str(<<"1", "2">>),
      Str(<<"a", "l", "t", "o">>), Null }

OddScoreData == { [BaseData EXCEPT ![k] = x] : k \in score_keys, x \in OddValues }

\* the optional sub-scores (numbers or null) and keys the schema does not name
FixtureOptional ==
    [eye_appeal_score |-> Num(820), nose_harmony_score |-> Num(750),
     lip_aesthetics_score |-> Num(710), jawline_definition_score |-> Num(680),
     cheekbone_prominence_score |-> Num(730),
     facial_composition_score |-> Num(760)]

OptionalParts ==
    { FixtureOptional,
      [FixtureOptional EXCEPT !.eye_appeal_score = Num(1500)],
      [FixtureOptional EXCEPT !.lip_aesthetics_score = Null],
      [eye_appeal_score |-> Num(820)] }

OptionalData ==
    { BaseData @@ opt : opt \in OptionalParts }
      \cup { BaseData @@ opt @@ [error |-> TRUE] :
               opt \in {FixtureOptional, [eye_appeal_score |-> Num(820)]} }
      \cup { BaseData @@ [error |-> TRUE], BaseData @@ [attempt |-> 7] }

\* a required key missing, a text too short or no string
Without(d, key) == [k \in DOMAIN d \ {key} |-> d[k]]

TextValues == { Text(3, 49, 2), Text(0, 50, 0), Num(5) }

IncompleteData ==
    { Without(BaseData, k) : k \in required_keys }
      \cup { [BaseData EXCEPT ![k] = x] :
               k \in {"scientific_explanation", "recommendations"},
               x \in TextValues }

ResponseData == ScoreData \cup OddScoreData \cup OptionalData \cup IncompleteData

\* generate_content raises (network, remote error), or returns a text
Outcomes ==
    { [raises |-> TRUE, text |-> [json |-> "none", data |-> None]] }
      \cup [raises : {FALSE}, text : [json : {"none", "invalid"}, data : {None}]]
      \cup [raises : {FALSE}, text : [json : {"valid"}, data : ResponseData]]
      \cup [raises : {FALSE}, text : [json : {"repaired"}, data : {BaseData}]]


(***************************************************************************)
(* State.  One entry per request of create_analysis.                       *)
(*   pc              where the request stands: "idle" (not yet received),  *)
(*                   "invoking" (awaiting _generate_content_async),        *)
(*                   "sleeping" (awaiting asyncio.sleep), "done"           *)
(*   upload          the request's file                                    *)
(*   valid           what validate_image returned for the file, None while *)
(*                   it has not been called                                *)
(*   processed       what process_image returned or raised for the file,   *)
(*                   None while it has not been called                     *)
(*   attempt         the loop variable of analyze_facial_attractiveness    *)
(*   invocations     calls of _generate_content_async made so far          *)
(*   failed          attempts that ended in the except branch              *)
(*   slept           time spent in asyncio.sleep                           *)
(*   response        the outcome of the remote call of the current attempt *)
(*   parsed          what _parse_ai_response returned in the attempt that  *)
(*                   succeeded, before _validate_analysis_result           *)
(*   analysis_result what analyze_facial_attractiveness returned           *)
(*   http            the answer of create_analysis                         *)
(*   db              the table analysis_results, by id                     *)
(*   uuids           ids handed out by uuid.uuid4()                        *)
(*   VALID_API_KEYS  settings.VALID_API_KEYS, a string of characters       *)
(*   reply           the answer to the last request the application got    *)
(*                   other than an upload that reached create_analysis     *)
(* and of a RateLimiter instance (middleware/rate_limiting.py):            *)
(*   requests        self.requests: for each client IP the times of the    *)
(*                   requests it recorded, oldest first                    *)
(*   now             what time.time() returns                              *)
(*   passed          for each client IP the times of the requests that     *)
(*                   were handed to call_next, ever                        *)
(*   rate_response   whose request the limiter handled last, and whether   *)
(*                   it answered 429 or handed it on                       *)
(***************************************************************************)
VARIABLES pc, upload, valid, processed, attempt, invocations, failed, slept,
          response, parsed, analysis_result, http, db, uuids, VALID_API_KEYS,
          reply, requests, now, passed, rate_response

limiter_vars == <<requests, now, passed, rate_response>>

vars == <<pc, upload, valid, processed, attempt, invocations, failed, slept,
          response, parsed, analysis_result, http, db, uuids, VALID_API_KEYS,
          reply, requests, now, passed, rate_response>>

\* the client IPs (request.client.host)
Clients == {"10.0.0.1", "10.0.0.2"}

Requests == {1, 2}

EmptyTable == [id \in {} |-> None]

\* the keys of the test environment (tests/conftest.py), as "a,aa"
TestKeys == <<"a", ",", "a", "a">>

InitRequests ==
    /\ pc = [r \in Requests |-> "idle"]
    /\ upload = [r \in Requests |-> None]
    /\ valid = [r \in Requests |-> None]
    /\ processed = [r \in Requests |-> None]
    /\ attempt = [r \in Requests |-> 0]
    /\ invocations = [r \in Requests |-> 0]
    /\ failed = [r \in Requests |-> 0]
    /\ slept = [r \in Requests |-> 0]
    /\ response = [r \in Requests |-> None]
    /\ parsed = [r \in Requests |-> None]
    /\ analysis_result = [r \in Requests |-> None]
    /\ http = [r \in Requests |-> None]
    /\ db = EmptyTable
    /\ uuids = 0
    /\ reply = None
    /\ requests = [client_ip \in Clients |-> <<>>]
    /\ now = 0
    /\ passed = [client_ip \in Clients |-> <<>>]
    /\ rate_response = None

Init == InitRequests /\ VALID_API_KEYS = TestKeys

(***************************************************************************)
(* The one FacialAnalysisService instance serves every request.  The loop  *)
(* variable attempt (line 44) is a local of the coroutine running          *)
(* analyze_facial_attractiveness for a request, so each request reads and  *)
(* writes the counter of its own frame.  The remote call and the delay are *)
(* awaited (run_in_executor at lines 83-87, asyncio.sleep at line 71): a   *)
(* request that waits does not hold the event loop.                        *)
(***************************************************************************)
frame_of_instance(r) == 1

frame(r) == r

holds_event_loop_while_waiting(r) == pc[r] \in {"invoking", "sleeping"}

holds_event_loop(r) == FALSE

\* the event loop can run a step of request r
runnable(r) == \A q \in Requests \ {r} : ~holds_event_loop(q)

(***************************************************************************)
(* create_analysis after analyze_facial_attractiveness returned: the       *)
(* record is added and committed, then the AnalysisResponse is built and   *)
(* validated (schemas.py).                                                 *)
(***************************************************************************)
get(result, key) == IF key \in DOMAIN result THEN result[key] ELSE Null

db_analysis(id, result) ==
    [id |-> id,
     analysis_status |-> result["status"],
     overall_score |-> result["overall_score"],
     symmetry_score |-> result["symmetry_score"],
     proportion_score |-> result["proportion_score"],
     skin_quality_score |-> result["skin_quality_score"],
     features_harmony_score |-> result["features_harmony_score"],
     eye_appeal_score |-> get(result, "eye_appeal_score"),
     nose_harmony_score |-> get(result, "nose_harmony_score"),
     lip_aesthetics_score |-> get(result, "lip_aesthetics_score"),
     jawline_definition_score |-> get(result, "jawline_definition_score"),
     cheekbone_prominence_score |-> get(result, "cheekbone_prominence_score"),
     facial_composition_score |-> get(result, "facial_composition_score"),
     scientific_explanation |-> result["scientific_explanation"],
     recommendations |-> result["recommendations"]]

\* the optional keys whose value is not None
additional_keys(result) ==
    {k \in optional_keys : get(result, k).t # "null"}

\* pydantic's float field: a number, or a string float() accepts
float_field(x) ==
    IF x.t = "num" THEN [ok |-> TRUE, v |-> x.v]
    ELSE IF x.t = "str" THEN float_of_str(x.s)
    ELSE Raised

\* validate_additional_scores: every value a float in 0..10
additional_scores_valid(result) ==
    \A k \in additional_keys(result) :
        LET f == float_field(result[k])
        IN  f.ok /\ 0 <= f.v /\ f.v <= 1000

AnalysisResponse(id, result) ==
    [code |-> 200,
     id |-> id,
     status |-> result["status"],
     overall_score |-> result["overall_score"],
     detailed_scores |->
         [symmetry |-> result["symmetry_score"],
          proportions |-> result["proportion_score"],
          skin_quality |-> result["skin_quality_score"],
          features_harmony |-> result["features_harmony_score"]],
     additional_scores |->
         IF additional_keys(result) = {} THEN None
         ELSE [k \in additional_keys(result) |-> result[k]],
     scientific_explanation |-> result["scientific_explanation"],
     recommendations |-> result["recommendations"]]

HTTPException(code) ==
    [code |-> code, id |-> 0, status |-> "", overall_score |-> 0,
     detailed_scores |-> None, additional_scores |-> None,
     scientific_explanation |-> None, recommendations |-> None]

\* create_analysis from the return of analyze_facial_attractiveness (lines
\* 48-109), for its result in request r: an exception it raised, or any
\* raised while the response is built, is answered with 500.
Respond(r, result) ==
    IF result = Exception
      THEN /\ http' = [http EXCEPT ![r] = HTTPException(500)]
           /\ pc' = [pc EXCEPT ![r] = "done"]
           /\ UNCHANGED <<analysis_result, db, uuids>>
      ELSE LET id == uuids + 1
           IN  /\ uuids' = id
               /\ db' = db @@ (id :> db_analysis(id, result))
               /\ http' = [http EXCEPT ![r] =
                             IF additional_scores_valid(result)
                               THEN AnalysisResponse(id, result)
                               ELSE HTTPException(500)]
               /\ analysis_result' = [analysis_result EXCEPT ![r] = result]
               /\ pc' = [pc EXCEPT ![r] = "done"]

(***************************************************************************)
(* create_analysis up to the first remote call.  opens: whether Image.open *)
(* and _optimize_image_for_ai succeed on the processed bytes inside        *)
(* analyze_facial_attractiveness.                                          *)
(***************************************************************************)
Reject_after_invoking(r, code) ==
    /\ http' = [http EXCEPT ![r] = HTTPException(code)]
    /\ pc' = [pc EXCEPT ![r] = "done"]
    /\ invocations' = [invocations EXCEPT ![r] = @ + 1]
    /\ UNCHANGED <<attempt, failed, slept, response, parsed,
                   analysis_result, db, uuids>>

\* raise HTTPException(status_code=code) out of create_analysis
Reject(r, code) ==
    /\ http' = [http EXCEPT ![r] = HTTPException(code)]
    /\ pc' = [pc EXCEPT ![r] = "done"]
    /\ UNCHANGED <<attempt, invocations, failed, slept, response, parsed,
                   analysis_result, db, uuids>>

CreateAnalysis(r, file, opens) ==
    /\ pc[r] = "idle"
    /\ runnable(r)
    /\ UNCHANGED <<VALID_API_KEYS, reply>>
    /\ UNCHANGED limiter_vars
    /\ upload' = [upload EXCEPT ![r] = file]
    \* line 43 is reached when lines 36-38 raised nothing
    /\ valid' = [valid EXCEPT ![r] =
                   IF starts_with_image(file.content_type)
                     THEN [returns |-> validate_image(file.image)]
                     ELSE None]
    \* line 47 is reached when lines 36-45 raised nothing
    /\ processed' = [processed EXCEPT ![r] =
                       IF starts_with_image(file.content_type)
                          /\ validate_image(file.image)
                         THEN process_image(file.image)
                         ELSE None]
    \* content_type.startswith('image/'); None has no startswith
    /\ IF file.content_type = "None" THEN Reject(r, 500)
       ELSE IF ~starts_with_image(file.content_type) THEN Reject(r, 400)
       ELSE IF ~validate_image(file.image) THEN Reject(r, 400)
       ELSE IF ~process_image(file.image).ok THEN Reject(r, 500)
       ELSE IF ~opens
         THEN /\ Respond(r, outer_except)
              /\ UNCHANGED <<attempt, invocations, failed, slept, response,
                             parsed>>
       ELSE /\ pc' = [pc EXCEPT ![r] = "invoking"]
            /\ attempt' = [attempt EXCEPT ![frame(r)] = 0]
            /\ invocations' = [invocations EXCEPT ![r] = @ + 1]
            /\ UNCHANGED <<failed, slept, response, parsed, analysis_result,
                           http, db, uuids>>

(***************************************************************************)
(* analyze_facial_attractiveness, one attempt from the return of the       *)
(* remote call: lines 49-71, and on the last failure lines 73-76.          *)
(***************************************************************************)
\* lines 58-61: the metadata replace what the response has under their keys
add_metadata(result, a) == [attempt |-> attempt_number(a)] @@ result

AttemptReturns(r, outcome) ==
    /\ pc[r] = "invoking"
    /\ runnable(r)
    /\ UNCHANGED <<VALID_API_KEYS, reply>>
    /\ UNCHANGED limiter_vars
    /\ response' = [response EXCEPT ![r] = outcome]
    /\ LET p == IF outcome.raises THEN [ok |-> FALSE, data |-> None]
                ELSE _parse_ai_response(outcome.text)
       IN  IF p.ok
             THEN /\ parsed' = [parsed EXCEPT ![r] = p.data]
                  /\ Respond(r, add_metadata(_validate_analysis_result(p.data),
                                             attempt[frame(r)]))
                  /\ UNCHANGED <<upload, valid, processed, attempt,
                                 invocations, failed, slept>>
           ELSE IF last_attempt(attempt[frame(r)])
             THEN /\ failed' = [failed EXCEPT ![r] = @ + 1]
                  /\ Respond(r, outer_except)
                  /\ UNCHANGED <<upload, valid, processed, attempt,
                                 invocations, slept, parsed>>
           ELSE /\ failed' = [failed EXCEPT ![r] = @ + 1]
                /\ pc' = [pc EXCEPT ![r] = "sleeping"]
                /\ UNCHANGED <<upload, valid, processed, attempt, invocations,
                               slept, parsed, analysis_result, http, db, uuids>>

\* asyncio.sleep(retry_delay) returns and the loop starts the next attempt
NextAttempt(r) ==
    /\ pc[r] = "sleeping"
    /\ runnable(r)
    /\ UNCHANGED <<VALID_API_KEYS, reply>>
    /\ UNCHANGED limiter_vars
    /\ slept' = [slept EXCEPT ![r] = @ + sleep_time(attempt[frame(r)])]
    /\ attempt' = [attempt EXCEPT ![frame(r)] = @ + 1]
    /\ invocations' = [invocations EXCEPT ![r] = @ + 1]
    /\ pc' = [pc EXCEPT ![r] = "invoking"]
    /\ response' = [response EXCEPT ![r] = None]
    /\ UNCHANGED <<upload, valid, processed, failed, parsed, analysis_result,
                   http, db, uuids>>

(***************************************************************************)
(* config.py and middleware/api_key_auth.py.  A key is a string of         *)
(* characters, as is settings.VALID_API_KEYS.                              *)
(***************************************************************************)
RECURSIVE lstrip(_)
lstrip(cs) == IF cs # <<>> /\ Head(cs) = " " THEN lstrip(Tail(cs)) ELSE cs

RECURSIVE rstrip(_)
rstrip(cs) ==
    IF cs # <<>> /\ cs[Len(cs)] = " " THEN rstrip(SubSeq(cs, 1, Len(cs) - 1))
    ELSE cs

\* str.strip()
strip(cs) == rstrip(lstrip(cs))

\* str.split(',')
RECURSIVE split(_)
split(cs) ==
    LET commas == {i \in DOMAIN cs : cs[i] = ","}
    IN  IF commas = {} THEN <<cs>>
        ELSE LET i == CHOOSE c \in commas : \A d \in commas : c <= d
             IN  <<SubSeq(cs, 1, i - 1)>> \o split(SubSeq(cs, i + 1, Len(cs)))

nonempty(cs) == cs # <<>>

get_api_keys_list_untrimmed(keys) ==
    IF keys = <<>> THEN <<>> ELSE SelectSeq(split(keys), nonempty)

\* Settings.get_api_keys_list
get_api_keys_list(keys) ==
    IF keys = <<>> THEN <<>>
    ELSE LET parts == split(keys)
         IN  SelectSeq([i \in DOMAIN parts |-> strip(parts[i])], nonempty)

\* An optional string: a header that was sent with the given value, or
\* None when it was not sent.
Sent(cs) == [present |-> TRUE, value |-> cs]

NotSent == [present |-> FALSE, value |-> <<>>]

\* `if not x`: None, or the empty string
falsy(x) == ~x.present \/ x.value = <<>>

\* APIKeyAuth.validate_api_key
validate_api_key(api_key) ==
    IF falsy(api_key) THEN FALSE
    ELSE LET valid_keys == get_api_keys_list(VALID_API_KEYS)
         IN  \E i \in DOMAIN valid_keys : valid_keys[i] = api_key.value

Accepted(api_key) == [ok |-> TRUE, status_code |-> 200, code |-> "", key |-> api_key]

Refused(code) == [ok |-> FALSE, status_code |-> 401, code |-> code, key |-> NotSent]

\* require_api_key.  x_api_key: the X-API-Key header; credentials: what
\* HTTPBearer(auto_error=False) read from the Authorization header, an
\* object holding the token (never falsy), or None.
require_api_key(x_api_key, credentials) ==
    IF ~falsy(x_api_key)
      THEN IF validate_api_key(x_api_key) THEN Accepted(x_api_key)
           ELSE Refused("INVALID_X_API_KEY")
    ELSE IF credentials.present
      THEN IF validate_api_key(credentials) THEN Accepted(credentials)
           ELSE Refused("INVALID_BEARER_TOKEN")
    ELSE Refused("NO_AUTHENTICATION")

(***************************************************************************)
(* The endpoints.  The routers of /api/analysis and /api/stats carry the   *)
(* dependency require_api_key; /api/health and / carry none.               *)
(***************************************************************************)
Protected_without_delete ==
    {"create_analysis", "get_all_analyses", "get_analysis", "get_statistics"}

Protected ==
    {"create_analysis", "get_all_analyses", "get_analysis", "delete_analysis",
     "get_statistics"}

\* the handlers of routers/analysis.py, routers/stats.py, routers/health.py
\* and main.py
Endpoints ==
    {"create_analysis", "get_all_analyses", "get_analysis", "delete_analysis",
     "get_statistics", "health_check", "root"}

\* the ids of the table, the most recently created first
RECURSIVE by_created_at_desc(_)
by_created_at_desc(ids) ==
    IF ids = {} THEN <<>>
    ELSE LET newest == CHOOSE i \in ids : \A j \in ids : j <= i
         IN  <<newest>> \o by_created_at_desc(ids \ {newest})

\* get_all_analyses
get_all_analyses ==
    LET ids == by_created_at_desc(DOMAIN db)
    IN  [code |-> 200,
         body |-> [items |->
                     [n \in DOMAIN ids |->
                        [id |-> ids[n],
                         overall_score |-> db[ids[n]].overall_score]]]]

\* the optional scores of a stored record that are not None
stored_additional(analysis) ==
    {k \in optional_keys : analysis[k].t # "null"}

\* get_analysis: 404, or the AnalysisResponse of the record; a record that
\* fails the validation of the response is answered 500 by the global
\* exception handler (main.py)
get_analysis(analysis_id) ==
    IF analysis_id \notin DOMAIN db THEN [code |-> 404, body |-> None]
    ELSE LET analysis == db[analysis_id]
             fields == [k \in stored_additional(analysis) |-> float_field(analysis[k])]
         IN  IF \E k \in DOMAIN fields :
                    ~fields[k].ok \/ fields[k].v < 0 \/ fields[k].v > 1000
               THEN [code |-> 500, body |-> None]
             ELSE [code |-> 200,
                   body |-> [id |-> analysis.id,
                             status |-> analysis.analysis_status,
                             overall_score |-> analysis.overall_score,
                             detailed_scores |->
                                 [symmetry |-> analysis.symmetry_score,
                                  proportions |-> analysis.proportion_score,
                                  skin_quality |-> analysis.skin_quality_score,
                                  features_harmony |-> analysis.features_harmony_score],
                             additional_scores |->
                                 IF stored_additional(analysis) = {} THEN None
                                 ELSE [k \in stored_additional(analysis) |-> analysis[k]],
                             scientific_explanation |-> analysis.scientific_explanation,
                             recommendations |-> analysis.recommendations]]

\* the query without its filter: first() is the oldest record
delete_analysis_unfiltered(analysis_id) ==
    IF DOMAIN db = {}
      THEN [code |-> 404, body |-> None, table |-> db]
      ELSE LET oldest == CHOOSE i \in DOMAIN db : \A j \in DOMAIN db : i <= j
           IN  [code |-> 200, body |-> [id |-> analysis_id],
                table |-> [i \in DOMAIN db \ {oldest} |-> db[i]]]

\* delete_analysis: the answer and the table it leaves
delete_analysis(analysis_id) ==
    IF analysis_id \notin DOMAIN db
      THEN [code |-> 404, body |-> None, table |-> db]
      ELSE [code |-> 200, body |-> [id |-> analysis_id],
            table |-> [i \in DOMAIN db \ {analysis_id} |-> db[i]]]

RECURSIVE total_score(_)
total_score(ids) ==
    IF ids = {} THEN 0
    ELSE LET i == CHOOSE j \in ids : TRUE
         IN  db[i].overall_score + total_score(ids \ {i})

\* the comparisons of lines 43-49 as <=: a score on a boundary is counted
\* in the bucket below it
get_statistics_boundary_below ==
    LET ids == DOMAIN db
        n == Cardinality(ids)
        in_range(lo, hi) ==
            Cardinality({i \in ids : lo < db[i].overall_score
                                     /\ db[i].overall_score <= hi})
    IN  IF n = 0
          THEN [code |-> 200,
                body |-> [total_analyses |-> 0, average_score |-> 0,
                          score_distribution |-> [range \in {} |-> 0]]]
          ELSE [code |-> 200,
                body |-> [total_analyses |-> n,
                          average_score |-> (2 * total_score(ids) + n) \div (2 * n),
                          score_distribution |->
                              ("0-2" :> Cardinality({i \in ids :
                                                        db[i].overall_score <= 200}))
                              @@ ("2-4" :> in_range(200, 400))
                              @@ ("4-6" :> in_range(400, 600))
                              @@ ("6-8" :> in_range(600, 800))
                              @@ ("8-10" :> Cardinality({i \in ids :
                                                db[i].overall_score > 800}))]]

\* An await between the two queries: a delete of the newest record is
\* committed after count() and before all().
all_analyses_after_delete ==
    IF DOMAIN db = {} THEN db
    ELSE LET newest == CHOOSE i \in DOMAIN db : \A j \in DOMAIN db : j <= i
         IN  [i \in DOMAIN db \ {newest} |-> db[i]]

\* What db.query(AnalysisResult).all() (line 33) returns.  get_statistics
\* is a coroutine that awaits nothing, and the server runs one worker
\* (run_server.py, line 46): no other handler runs between line 24 and
\* line 33, and the query sees the table count() saw.
all_analyses == db

\* get_statistics.  The scores are in hundredths; the average of at most
\* three one-decimal scores is no tie of round(average_score, 2), so the
\* rounding is to the nearest hundredth.  The division by len(analyses)
\* raises for an empty list, which the except branch answers with 500.
get_statistics ==
    LET total_analyses == Cardinality(DOMAIN db)
        analyses == all_analyses
        ids == DOMAIN analyses
        n == Cardinality(ids)
        in_range(lo, hi) ==
            Cardinality({i \in ids : lo <= analyses[i].overall_score
                                     /\ analyses[i].overall_score < hi})
    IN  IF total_analyses = 0
          THEN [code |-> 200,
                body |-> [total_analyses |-> 0, average_score |-> 0,
                          score_distribution |-> [range \in {} |-> 0]]]
        ELSE IF n = 0 THEN [code |-> 500, body |-> None]
        ELSE [code |-> 200,
              body |-> [total_analyses |-> total_analyses,
                        average_score |-> (2 * total_score(ids) + n) \div (2 * n),
                        score_distribution |->
                            ("0-2" :> Cardinality({i \in ids :
                                          analyses[i].overall_score < 200}))
                            @@ ("2-4" :> in_range(200, 400))
                            @@ ("4-6" :> in_range(400, 600))
                            @@ ("6-8" :> in_range(600, 800))
                            @@ ("8-10" :> Cardinality({i \in ids :
                                          analyses[i].overall_score >= 800}))]]

\* the answer to a request: who asked what, and what came back
Reply(endpoint, x_api_key, credentials, analysis_id, answer, detail) ==
    [endpoint |-> endpoint, x_api_key |-> x_api_key, credentials |-> credentials,
     id |-> analysis_id, code |-> answer.code, detail |-> detail,
     body |-> answer.body]

\* One request to an endpoint, other than an upload that passes the
\* dependency (that one is CreateAnalysis): the dependency of the router
\* runs first, and the handler only when it raised nothing.
Call(endpoint, x_api_key, credentials, analysis_id) ==
    LET auth == IF endpoint \in Protected
                  THEN require_api_key(x_api_key, credentials)
                  ELSE Accepted(NotSent)
        answer == IF ~auth.ok THEN [code |-> auth.status_code, body |-> None]
                  ELSE IF endpoint = "get_all_analyses" THEN get_all_analyses
                  ELSE IF endpoint = "get_analysis" THEN get_analysis(analysis_id)
                  ELSE IF endpoint = "delete_analysis"
                    THEN [code |-> delete_analysis(analysis_id).code,
                          body |-> delete_analysis(analysis_id).body]
                  ELSE IF endpoint = "get_statistics" THEN get_statistics
                  ELSE [code |-> 200, body |-> None]
    IN  /\ endpoint = "create_analysis" => ~auth.ok
        /\ \A r \in Requests : ~holds_event_loop(r)
        /\ reply' = Reply(endpoint, x_api_key, credentials, analysis_id,
                          answer, auth.code)
        /\ db' = IF auth.ok /\ endpoint = "delete_analysis"
                   THEN delete_analysis(analysis_id).table
                   ELSE db
        /\ UNCHANGED <<pc, upload, valid, processed, attempt, invocations,
                       failed, slept, response, parsed, analysis_result, http,
                       uuids, VALID_API_KEYS>>
        /\ UNCHANGED limiter_vars

Next ==
    \/ \E file \in Uploads, opens \in BOOLEAN : CreateAnalysis(1, file, opens)
    \/ \E outcome \in Outcomes : AttemptReturns(1, outcome)
    \/ NextAttempt(1)

Spec == Init /\ [][Next]_vars

(***************************************************************************)
(* Two requests in flight on the one service instance, their steps         *)
(* interleaved in every order.  FairConc: the remote calls of request 2    *)
(* return and its delays end; nothing is assumed of request 1, which may   *)
(* wait on the remote model for ever.                                      *)
(***************************************************************************)
ConcUploads ==
    [content_type : {"image/jpeg"}, image : {Image(400, 400), Image(100, 400)}]

ReconciledData ==
    [BaseData EXCEPT !.overall_score = Num(680), !.symmetry_score = Num(900),
                     !.proportion_score = Num(900),
                     !.skin_quality_score = Num(900),
                     !.features_harmony_score = Num(900)]

ConcOutcomes ==
    { [raises |-> TRUE, text |-> [json |-> "none", data |-> None]],
      [raises |-> FALSE, text |-> [json |-> "invalid", data |-> None]],
      [raises |-> FALSE, text |-> [json |-> "valid", data |-> BaseData]],
      [raises |-> FALSE, text |-> [json |-> "valid", data |-> ReconciledData]] }

NextConc ==
    \E r \in Requests :
        \/ \E file \in ConcUploads, opens \in BOOLEAN : CreateAnalysis(r, file, opens)
        \/ \E outcome \in ConcOutcomes : AttemptReturns(r, outcome)
        \/ NextAttempt(r)

SpecConc == Init /\ [][NextConc]_vars

FairConc ==
    /\ SpecConc
    /\ WF_vars(\E file \in ConcUploads, opens \in BOOLEAN : CreateAnalysis(2, file, opens))
    /\ WF_vars(\E outcome \in ConcOutcomes : AttemptReturns(2, outcome))
    /\ WF_vars(NextAttempt(2))

(***************************************************************************)
(* The whole application: uploads by two clients that hold a key, and      *)
(* requests to every endpoint with every combination of a valid key, an    *)
(* invalid key and no key in the two headers.                              *)
(***************************************************************************)
\* <<X-API-Key, Bearer token>>: none, a valid key in either header, an
\* invalid one in either, an invalid X-API-Key beside a valid token
ApiHeaders ==
    { <<NotSent, NotSent>>,
      <<Sent(<<"a">>), NotSent>>, <<NotSent, Sent(<<"a">>)>>,
      <<Sent(<<"b">>), NotSent>>, <<NotSent, Sent(<<"b">>)>>,
      <<Sent(<<"b">>), Sent(<<"a">>)>> }

ApiUploads == [content_type : {"image/jpeg"}, image : {Image(400, 400)}]

ApiOutcomes ==
    { [raises |-> TRUE, text |-> [json |-> "none", data |-> None]],
      [raises |-> FALSE, text |-> [json |-> "valid", data |-> BaseData]] }

Ids == {1, 2, 3}

\* an upload with headers that pass the dependency of the router
Upload(r, x_api_key, credentials, file, opens) ==
    /\ require_api_key(x_api_key, credentials).ok
    /\ CreateAnalysis(r, file, opens)

NextApi ==
    \/ \E r \in Requests, h \in ApiHeaders, file \in ApiUploads :
           Upload(r, h[1], h[2], file, TRUE)
    \/ \E r \in Requests, outcome \in ApiOutcomes : AttemptReturns(r, outcome)
    \/ \E r \in Requests : NextAttempt(r)
    \/ \E e \in Endpoints, h \in ApiHeaders :
           \E id \in (IF e \in {"get_analysis", "delete_analysis"} THEN Ids ELSE {0}) :
               Call(e, h[1], h[2], id)

SpecApi == Init /\ [][NextApi]_vars

(***************************************************************************)
(* require_api_key alone: every configured string and every X-API-Key up   *)
(* to a length, beside no, an empty, a one-letter and a blank token, on    *)
(* one protected endpoint.                                                 *)
(***************************************************************************)
MaxConfigLen == 3
MaxKeyLen == 2

Strings(alphabet, n) == UNION { [1..k -> alphabet] : k \in 0..n }

ConfigStrings == Strings({"a", ",", " "}, MaxConfigLen)

HeaderKeys == {NotSent} \cup { Sent(k) : k \in Strings({"a", " "}, MaxKeyLen) }

HeaderCredentials == {NotSent, Sent(<<>>), Sent(<<"a">>), Sent(<<" ">>)}

InitAuth == InitRequests /\ VALID_API_KEYS \in ConfigStrings

NextAuth ==
    \E x \in HeaderKeys, c \in HeaderCredentials : Call("get_all_analyses", x, c, 0)

SpecAuth == InitAuth /\ [][NextAuth]_vars

(***************************************************************************)
(* The admission of an upload and its normalisation alone, over images of  *)
(* many sizes: create_analysis up to the first remote call.                *)
(***************************************************************************)
GateSides ==
    {199, 200, 201, 281, 299, 300, 400, 600, 606, 607, 897, 1024, 1025, 1320,
     3072, 4000, 4001}

GateImages ==
    { Image(w, h) : w \in GateSides, h \in GateSides }
      \cup { [Image(400, 400) EXCEPT !.decodable = FALSE],
             [Image(400, 400) EXCEPT !.verifies = FALSE],
             [Image(400, 400) EXCEPT !.loads = FALSE] }

GateUploads == [content_type : {"image/jpeg"}, image : GateImages]

NextGate == \E file \in GateUploads : CreateAnalysis(1, file, TRUE)

SpecGate == Init /\ [][NextGate]_vars


(***************************************************************************)
(* The store behind the endpoints: uploads by two clients that hold a key, *)
(* with model responses whose overall_score lies on a boundary of the      *)
(* statistics or just below one, a response with an optional sub-score out *)
(* of range and remote calls that raise, interleaved in every order with   *)
(* list, get, delete and statistics requests.                              *)
(***************************************************************************)
StoreScores == {190, 200, 400, 600, 790, 800, 1000}

\* a response whose five scores agree, so that the overall_score stands
UniformData(v) ==
    [BaseData EXCEPT !.overall_score = Num(v), !.symmetry_score = Num(v),
                     !.proportion_score = Num(v),
                     !.skin_quality_score = Num(v),
                     !.features_harmony_score = Num(v)]

StoreOutcomes ==
    { [raises |-> TRUE, text |-> [json |-> "none", data |-> None]],
      [raises |-> FALSE,
       text |-> [json |-> "valid",
                 data |-> BaseData @@ [eye_appeal_score |-> Num(1500)]]] }
      \cup { [raises |-> FALSE,
              text |-> [json |-> "valid", data |-> UniformData(v)]] :
               v \in StoreScores }

StoreEndpoints ==
    {"get_all_analyses", "get_analysis", "delete_analysis", "get_statistics"}

NextStore ==
    \/ \E r \in Requests, file \in ApiUploads :
           Upload(r, Sent(<<"a">>), NotSent, file, TRUE)
    \/ \E r \in Requests, outcome \in StoreOutcomes : AttemptReturns(r, outcome)
    \/ \E r \in Requests : NextAttempt(r)
    \/ \E e \in StoreEndpoints :
           \E id \in (IF e \in {"get_analysis", "delete_analysis"} THEN Ids ELSE {0}) :
               Call(e, Sent(<<"a">>), NotSent, id)

SpecStore == Init /\ [][NextStore]_vars

(***************************************************************************)
(* The Normalizer on the pixel data: uploads of one size whose image is    *)
(* any arrangement of dark, dim, bright and red-dark regions, on which no  *)
(* or one enhancement sub-step raises.                                     *)
(***************************************************************************)
Regions == 5

Colours == {Grey(40), Grey(80), Grey(200), <<40, 200, 200>>}

PixelImages ==
    { [Image(400, 400) EXCEPT !.pixels = p, !.fails = f] :
        p \in [1..Regions -> Colours],
        f \in {{}} \cup { {sub_steps[n]} : n \in DOMAIN sub_steps } }

PixelUploads == [content_type : {"image/jpeg"}, image : PixelImages]

NextPixels == \E file \in PixelUploads : CreateAnalysis(1, file, TRUE)

SpecPixels == Init /\ [][NextPixels]_vars

(***************************************************************************)
(* RateLimiter (middleware/rate_limiting.py).  An instance is made with    *)
(* max_requests and window_seconds (10 and 60 when none are given); the    *)
(* instance here is RateLimiter(2, 3).  The clock counts in seconds, never *)
(* goes back, and is followed up to MaxTime.  __call__ awaits nothing      *)
(* before call_next, so what it does for one request is one step; several  *)
(* requests may arrive within one reading of the clock.                    *)
(***************************************************************************)
max_requests == 2
window_seconds == 3
MaxTime == 5

\* the loop of lines 23-24 that drops nothing
clean_keeps_all(request_times, current_time) == request_times

\* lines 23-24: popleft() while the oldest time is before the window
RECURSIVE clean(_, _)
clean(request_times, current_time) ==
    IF request_times # <<>>
       /\ Head(request_times) < current_time - window_seconds
      THEN clean(Tail(request_times), current_time)
      ELSE request_times

\* __call__ for a request of the client, up to the await of call_next
__call__(client_ip) ==
    LET current_time == now
        request_times == clean(requests[client_ip], current_time)
    IN  /\ IF Len(request_times) >= max_requests
             THEN /\ requests' = [requests EXCEPT ![client_ip] = request_times]
                  /\ rate_response' = [client |-> client_ip, status_code |-> 429]
                  /\ UNCHANGED passed
             ELSE /\ requests' = [requests EXCEPT ![client_ip] =
                                    Append(request_times, current_time)]
                  /\ passed' = [passed EXCEPT ![client_ip] =
                                  Append(@, current_time)]
                  /\ rate_response' = [client |-> client_ip, status_code |-> 200]
        /\ UNCHANGED <<now, pc, upload, valid, processed, attempt, invocations,
                       failed, slept, response, parsed, analysis_result, http,
                       db, uuids, VALID_API_KEYS, reply>>

\* the clock moves on
Tick ==
    /\ now < MaxTime
    /\ now' = now + 1
    /\ UNCHANGED <<requests, passed, rate_response, pc, upload, valid,
                   processed, attempt, invocations, failed, slept, response,
                   parsed, analysis_result, http, db, uuids, VALID_API_KEYS,
                   reply>>

NextRate ==
    \/ \E client_ip \in Clients : __call__(client_ip)
    \/ Tick

SpecRate == Init /\ [][NextRate]_vars

(***************************************************************************)
(* Properties.  A request is settled when create_analysis has answered;    *)
(* returned(r) says analyze_facial_attractiveness returned a Scorecard,    *)
(* genuine(r) that the Scorecard was built from a model response.          *)
(***************************************************************************)
returned(r) == analysis_result[r] # None

genuine(r) == returned(r) /\ parsed[r] # None

fallback(r) == returned(r) /\ parsed[r] = None

\* C1: one analysis invokes the remote model at most 3 times; an invocation
\* is made only while no Scorecard has been returned and, after the first,
\* only when every invocation before it ended in the except branch (whether
\* the call, the parsing or the validation raised), all on one budget of 3.
C1_RetryBudget ==
    [][\A r \in Requests :
          /\ invocations'[r] <= 3
          /\ invocations'[r] # invocations[r] =>
               /\ invocations'[r] = invocations[r] + 1
               /\ ~returned(r)
               /\ failed[r] = invocations[r]
          /\ returned(r) => invocations'[r] = invocations[r]]_vars

\* the budget is used up, the third failure being one of interpretation
C1_Witness ==
    /\ pc[1] = "done"
    /\ invocations[1] = 3
    /\ failed[1] = 3
    /\ ~response[1].raises

\* C2: when all 3 attempts fail, the analysis returns (it does not raise) the
\* default Scorecard: status improvable, the five required scores 5.0, the
\* fallback marker set.
C2_FallbackAfterExhaustion ==
    \A r \in Requests :
        (pc[r] = "done" /\ failed[r] = 3) =>
            /\ returned(r)
            /\ analysis_result[r]["status"] = "improvable"
            /\ \A k \in score_keys : analysis_result[r][k] = 500
            /\ "error" \in DOMAIN analysis_result[r]
            /\ analysis_result[r]["error"] = TRUE

C2_Witness == pc[1] = "done" /\ failed[1] = 3 /\ fallback(1)


\* the Gatekeeper accepted the upload of request r
accepted(r) ==
    /\ upload[r] # None
    /\ starts_with_image(upload[r].content_type)
    /\ validate_image(upload[r].image)

\* an optional sub-score that is present and is no number in [0,10]
bad_optional(result, k) ==
    /\ k \in DOMAIN result
    /\ result[k].t # "null"
    /\ ~(result[k].t = "num" /\ 0 <= result[k].v /\ result[k].v <= 1000)

C4_AttemptCountsInvocations ==
    \A r \in Requests :
        genuine(r) =>
            /\ analysis_result[r]["attempt"] = invocations[r]
            /\ failed[r] = 0 =>
                 (invocations[r] = 1 /\ analysis_result[r]["attempt"] = 1)
            /\ failed[r] = 2 => analysis_result[r]["attempt"] = 3

C4_Witness ==
    genuine(1) /\ failed[1] = 2 /\ analysis_result[1]["attempt"] = 3

\* C5: the time slept is 2 for each failed attempt that another attempt
\* followed: 2 * (k - 1) once attempt k is under way or has ended, so nothing
\* before the first attempt and nothing after the third failure.
C5_FixedDelay ==
    \A r \in Requests :
        /\ invocations[r] = 0 => slept[r] = 0
        /\ invocations[r] > 0 => slept[r] = 2 * (invocations[r] - 1)
        /\ genuine(r) => slept[r] = 2 * (analysis_result[r]["attempt"] - 1)
        /\ (pc[r] = "done" /\ failed[r] = 3) => slept[r] = 4

C5_Witness ==
    genuine(1) /\ analysis_result[1]["attempt"] = 3 /\ slept[1] = 4

\* C6: a returned Scorecard whose status is denied has every numeric score 0.0.
C6_DeniedScoresZero ==
    \A r \in Requests :
        (returned(r) /\ analysis_result[r]["status"] = "denied") =>
            /\ \A k \in score_keys : analysis_result[r][k] = 0
            /\ \A k \in optional_keys \cap DOMAIN analysis_result[r] :
                   analysis_result[r][k].t = "num" => analysis_result[r][k].v = 0

\* C7: in every returned Scorecard overall is within 1.5 of the mean of the
\* four detail scores (4 * overall within 6.00 of their sum).
C7_OverallNearMean ==
    \A r \in Requests :
        returned(r) =>
            Abs(4 * analysis_result[r]["overall_score"] - sum4(analysis_result[r]))
                <= 600

\* a response whose overall was further than 1.5 from the mean was returned
C7_Witness ==
    /\ genuine(1)
    /\ Abs(4 * parsed[1]["overall_score"] - sum4(parsed[1])) > 600
    /\ analysis_result[1]["overall_score"] # parsed[1]["overall_score"]

\* C8: reconciliation replaces overall by the mean of the four detail scores
\* rounded to one decimal exactly when the two differ by more than 1.5 (not
\* at exactly 1.5), and leaves the detail scores as they were.
C8_ReconciledOnlyAbove ==
    \A r \in Requests :
        genuine(r) =>
            LET before == parsed[r]
                after == analysis_result[r]
                s == sum4(before)
            IN  /\ \A k \in detail_keys : after[k] = before[k]
                /\ Abs(4 * before["overall_score"] - s) <= 600 =>
                     after["overall_score"] = before["overall_score"]
                /\ Abs(4 * before["overall_score"] - s) > 600 =>
                     /\ after["overall_score"] % 10 = 0
                     /\ Abs(4 * after["overall_score"] - s) <= 20

\* the response of the current attempt of request r, when it is an object
has_data(r) ==
    /\ pc[r] \in {"sleeping", "done"}
    /\ response[r] # None
    /\ ~response[r].raises
    /\ response[r].text.json \in {"valid", "repaired"}

\* an object with the eight required keys and two long enough texts
complete(d) ==
    /\ required_keys \subseteq DOMAIN d
    /\ \A k \in {"scientific_explanation", "recommendations"} :
           d[k].t = "text" /\ d[k].v >= 50

non_numeric(x) ==
    \/ x.t \notin {"num", "str"}
    \/ x.t = "str" /\ \E i \in DOMAIN x.s : x.s[i] \notin Digits \cup {".", ","}

C10_OptionalScoresInRange ==
    /\ \A r \in Requests :
           returned(r) =>
               \A k \in optional_keys : ~bad_optional(analysis_result[r], k)
    /\ \A id \in DOMAIN db :
           \A k \in optional_keys : ~bad_optional(db[id], k)

\* C11: a returned Scorecard carries the fallback marker (the key error)
\* exactly when it is the default Scorecard; a Scorecard built from a model
\* response never carries it, whatever keys the response has.
C11_MarkerIffFallback ==
    \A r \in Requests :
        returned(r) =>
            (("error" \in DOMAIN analysis_result[r]) <=> fallback(r))

\* C12: an upload that ends in the fallback is answered 200 with a response
\* in which the fallback is flagged, and its stored record is marked too: the
\* response and the record differ from those the same Scorecard without the
\* marker would give.
C12_FallbackFlagged ==
    \A r \in Requests :
        (pc[r] = "done" /\ fallback(r)) =>
            LET unmarked == Without(analysis_result[r], "error")
                id == http[r].id
            IN  /\ http[r].code = 200
                /\ id \in DOMAIN db
                /\ http[r] # AnalysisResponse(id, unmarked)
                /\ db[id] # db_analysis(id, unmarked)

\* the upload of request r was refused admission: its declared content type
\* is no image type, or validate_image returned False
rejected(r) ==
    /\ upload[r] # None
    /\ upload[r].content_type # "None"
    /\ \/ ~starts_with_image(upload[r].content_type)
       \/ ~validate_image(upload[r].image)

\* C13: an upload the Gatekeeper rejects (or whose declared content type is
\* no image type) is answered 400 in the step that receives it, with
\* process_image not called, no remote call made, no attempt failed, no delay
\* taken and no record stored; a remote call is made only for an upload the
\* Gatekeeper accepted and process_image completed on.
C13_RejectedBeforeNormalizer ==
    /\ [](\A r \in Requests :
             /\ rejected(r) =>
                  /\ pc[r] = "done"
                  /\ http[r].code = 400
                  /\ processed[r] = None
                  /\ invocations[r] = 0
                  /\ failed[r] = 0
                  /\ slept[r] = 0
                  /\ ~returned(r)
             /\ invocations[r] > 0 =>
                  /\ accepted(r)
                  /\ processed[r] # None
                  /\ processed[r].ok)
    /\ [][\A r \in Requests : rejected(r)' => (db' = db /\ uuids' = uuids)]_vars

\* an image type declared, the image refused by validate_image
C13_Witness ==
    /\ rejected(1)
    /\ starts_with_image(upload[1].content_type)
    /\ http[1].code = 400

\* validate_image was called for request r on an image whose header decodes
gate_ran(r) == valid[r] # None /\ upload[r].image.decodable

\* both sides of the image within the size limits
size_in_limits(image) ==
    /\ 200 <= image.width /\ image.width <= 4000
    /\ 200 <= image.height /\ image.height <= 4000

\* width / height within [1/3, 3]
ratio_in_limits(image) ==
    image.width <= 3 * image.height /\ image.height <= 3 * image.width

\* C14: validate_image returns False for every image whose width / height is
\* above 3 or below 1/3, and an image with the ratio in [1/3, 3] (3 itself
\* included) that passes the other checks is accepted.
C14_AspectThreshold ==
    \A r \in Requests :
        gate_ran(r) =>
            LET image == upload[r].image
            IN  /\ ~ratio_in_limits(image) => valid[r].returns = FALSE
                /\ (ratio_in_limits(image) /\ size_in_limits(image)
                      /\ image.verifies) => valid[r].returns = TRUE

\* C15: validate_image returns False whenever a side of the image is below
\* 200 or above 4000, and an image with both sides in 200..4000 that passes
\* the other checks (it verifies, its ratio is within [1/3, 3]) is accepted.
C15_SizeLimits ==
    \A r \in Requests :
        gate_ran(r) =>
            LET image == upload[r].image
            IN  /\ ~size_in_limits(image) => valid[r].returns = FALSE
                /\ (size_in_limits(image) /\ ratio_in_limits(image)
                      /\ image.verifies) => valid[r].returns = TRUE

\* a side of 199 refused next to one of 4000
C15_Witness ==
    /\ gate_ran(1)
    /\ upload[1].image.width = 199
    /\ upload[1].image.height = 4000
    /\ valid[1].returns = FALSE

\* C16: for every image validate_image accepts, the image process_image
\* returns has both sides at most 1024: so has the image after
\* _resize_image, and the upscaling of an image whose smaller side is below
\* 300 leaves the larger side at most 1024.
C16_OutputWithinMaxSize ==
    \A r \in Requests :
        (processed[r] # None /\ processed[r].ok) =>
            LET image == upload[r].image
                resized == _resize_image(<<image.width, image.height>>)
                out == processed[r].size
            IN  /\ valid[r].returns = TRUE
                /\ resized[1] <= 1024 /\ resized[2] <= 1024
                /\ out[1] <= 1024 /\ out[2] <= 1024
                /\ Min(resized[1], resized[2]) >= 300 => out = resized

\* an upscaled image of the most extreme ratio accepted
C16_Witness ==
    /\ processed[1] # None
    /\ processed[1].ok
    /\ upload[1].image.width = 200
    /\ upload[1].image.height = 606
    /\ processed[1].size = <<300, 909>>

\* what request r keeps for itself
own(r) ==
    <<pc[r], upload[r], valid[r], processed[r], attempt[r], invocations[r],
      failed[r], slept[r], response[r], parsed[r], analysis_result[r], http[r]>>

\* the Scorecard the last response of request r gives after n remote calls
scorecard_of(outcome, n) ==
    add_metadata(_validate_analysis_result(_parse_ai_response(outcome.text).data),
                 n - 1)

\* C17: with two analyses in flight on the one service instance, in every
\* interleaving, a step of one request changes nothing the other keeps (its
\* attempt counter included); each request makes at most 3 remote calls; and
\* the Scorecard of a request is determined by its own responses: built from
\* its own last response with its own number of calls as attempt, or the
\* default exactly when its own three attempts failed or its own image did
\* not open.
C17_RequestsIndependent ==
    /\ [](\A r \in Requests :
             /\ invocations[r] <= 3
             /\ attempt[r] <= 2
             /\ pc[r] \in {"invoking", "sleeping"} =>
                  (attempt[r] = invocations[r] - 1 /\ failed[r] <= invocations[r])
             /\ genuine(r) =>
                  /\ failed[r] = invocations[r] - 1
                  /\ analysis_result[r] = scorecard_of(response[r], invocations[r])
             /\ fallback(r) =>
                  /\ analysis_result[r] = _get_default_analysis_result
                  /\ failed[r] = invocations[r]
                  /\ invocations[r] \in {0, 3})
    /\ [][\A r \in Requests : pc'[r] = pc[r] => own(r)' = own(r)]_vars

\* both requests were retrying at once and ended differently: one with a
\* Scorecard from its third attempt, the other with the default
C17_Witness ==
    /\ genuine(1)
    /\ analysis_result[1]["attempt"] = 3
    /\ fallback(2)
    /\ failed[2] = 3

\* C18: while a request waits on the remote model or in its retry delay,
\* every step of the other request that is due can be taken, and the other
\* request, once received, ends with its own Scorecard or rejection,
\* provided its own remote calls return, even when the first waits for ever.
C18_OthersNotBlocked ==
    /\ [](\A q \in Requests : \A r \in Requests \ {q} :
             pc[q] \in {"invoking", "sleeping"} =>
                 /\ pc[r] = "idle" =>
                      ENABLED (\E file \in ConcUploads, opens \in BOOLEAN :
                                  CreateAnalysis(r, file, opens))
                 /\ pc[r] = "invoking" =>
                      ENABLED (\E outcome \in ConcOutcomes : AttemptReturns(r, outcome))
                 /\ pc[r] = "sleeping" => ENABLED NextAttempt(r))
    /\ (pc[1] \in {"invoking", "sleeping"}) ~>
          (pc[2] = "done" /\ (accepted(2) => returned(2)))

\* request 2 went through its retries and returned while request 1 was
\* still waiting for its first remote call
C18_Witness ==
    /\ pc[1] = "invoking"
    /\ invocations[1] = 1
    /\ genuine(2)
    /\ slept[2] = 4

\* neither header of the request answered by reply carries a valid key
no_valid_key(answer) ==
    ~validate_api_key(answer.x_api_key) /\ ~validate_api_key(answer.credentials)

under_analysis_or_stats(answer) ==
    answer.endpoint \in {"create_analysis", "get_all_analyses", "get_analysis",
                         "delete_analysis", "get_statistics"}

configured(k) ==
    LET cs == VALID_API_KEYS
        n == Len(cs)
    IN  /\ k # <<>>
        /\ k[1] # " " /\ k[Len(k)] # " "
        /\ \E i \in 0..n, j \in 1..(n + 1) :
              /\ i < j
              /\ (i = 0 \/ cs[i] = ",")
              /\ (j = n + 1 \/ cs[j] = ",")
              /\ \A m \in (i + 1)..(j - 1) : cs[m] # ","
              /\ \E a \in (i + 1)..(j - 1) :
                    LET b == a + Len(k) - 1
                    IN  /\ b <= j - 1
                        /\ SubSeq(cs, a, b) = k
                        /\ \A m \in ((i + 1)..(a - 1)) \cup ((b + 1)..(j - 1)) :
                               cs[m] = " "

answered(code, detail) == reply.code = code /\ reply.detail = detail

\* the decision on one header: accepted when its key is configured, refused
\* with the given code otherwise
decided_on(header, refusal) ==
    IF configured(header.value) THEN answered(200, "")
    ELSE answered(401, refusal)

\* C20, as stated: require_api_key decides on the X-API-Key header whenever
\* it is present, otherwise on the Bearer token, and with neither answers
\* NO_AUTHENTICATION.
C20_HeaderPrecedence ==
    reply # None =>
        IF reply.x_api_key.present
          THEN decided_on(reply.x_api_key, "INVALID_X_API_KEY")
        ELSE IF reply.credentials.present
          THEN decided_on(reply.credentials, "INVALID_BEARER_TOKEN")
        ELSE answered(401, "NO_AUTHENTICATION")

\* C20, amended: require_api_key decides on the X-API-Key header whenever it
\* is present and not empty (valid: accepted; invalid: 401 INVALID_X_API_KEY
\* whatever token accompanies it); an empty X-API-Key counts as absent; then
\* it decides on the Bearer token (valid: accepted; invalid: 401
\* INVALID_BEARER_TOKEN) and with neither answers 401 NO_AUTHENTICATION; a
\* key is valid iff it is non-empty and equals one of the trimmed, non-empty,
\* comma-separated configured keys.
C20_NonEmptyHeaderPrecedence ==
    reply # None =>
        IF reply.x_api_key.present /\ reply.x_api_key.value # <<>>
          THEN decided_on(reply.x_api_key, "INVALID_X_API_KEY")
        ELSE IF reply.credentials.present
          THEN decided_on(reply.credentials, "INVALID_BEARER_TOKEN")
        ELSE answered(401, "NO_AUTHENTICATION")

\* an empty X-API-Key beside a valid token, configured with blanks around it
C20_Witness ==
    /\ reply # None
    /\ VALID_API_KEYS = <<" ", "a", " ">>
    /\ reply.x_api_key = Sent(<<>>)
    /\ reply.credentials = Sent(<<"a">>)
    /\ reply.code = 200

(***************************************************************************)
(* The store seen through the endpoints.  A step of Call leaves every      *)
(* upload where it stands and answers in reply'; the ids of the successful *)
(* uploads are those of the 200 answers of create_analysis.                *)
(***************************************************************************)
\* this step is an authenticated request to the endpoint
called(endpoint) ==
    /\ pc' = pc
    /\ vars' # vars
    /\ reply'.endpoint = endpoint
    /\ reply'.code # 401

\* the requests whose upload is answered 200 in this step
answered_200 ==
    {r \in Requests : http[r] = None /\ http'[r] # None /\ http'[r].code = 200}

listed(body) == { body.items[n].id : n \in DOMAIN body.items }

\* the upload that was answered 200 with this id
upload_of(id) ==
    CHOOSE r \in Requests : http[r] # None /\ http[r].code = 200 /\ http[r].id = id

\* C21: the ids of the store are at every moment those created by successful
\* uploads and not since deleted (a step adds to the store exactly the ids
\* of the uploads it answers 200 and takes from it exactly the id of the
\* delete it answers 200); the list endpoint returns exactly these ids;
\* get(id) answers 200 with the stored analysis, whose overall_score is
\* that of its upload response, for exactly these ids and 404 for every
\* other id.
C21_ListAndGetMatchUploads ==
    [][ /\ DOMAIN db' \ DOMAIN db = { http'[r].id : r \in answered_200 }
        /\ DOMAIN db \ DOMAIN db' =
               IF called("delete_analysis") /\ reply'.code = 200
                 THEN {reply'.id} ELSE {}
        /\ called("get_all_analyses") =>
               /\ reply'.code = 200
               /\ listed(reply'.body) = DOMAIN db
               /\ Len(reply'.body.items) = Cardinality(DOMAIN db)
        /\ called("get_analysis") =>
               IF reply'.id \in DOMAIN db
                 THEN /\ reply'.code = 200
                      /\ reply'.body.id = reply'.id
                      /\ reply'.body.status = db[reply'.id].analysis_status
                      /\ reply'.body.overall_score = db[reply'.id].overall_score
                      /\ reply'.body.overall_score
                             = http[upload_of(reply'.id)].overall_score
                 ELSE reply'.code = 404 ]_vars

\* C22: a delete of an id that is not in the store answers 404 and leaves
\* the store as it is; a delete of an id that is in the store answers with
\* that id, removes the record of that id and leaves every other record as
\* it is.
C22_DeleteFrame ==
    [][ called("delete_analysis") =>
          IF reply'.id \notin DOMAIN db
            THEN reply'.code = 404 /\ db' = db
            ELSE /\ reply'.code = 200
                 /\ reply'.body.id = reply'.id
                 /\ DOMAIN db' = DOMAIN db \ {reply'.id}
                 /\ \A i \in DOMAIN db' : db'[i] = db[i] ]_vars

\* a record was deleted and another one is still in the store
C22_Witness ==
    /\ reply # None
    /\ reply.endpoint = "delete_analysis"
    /\ reply.code = 200
    /\ reply.id \notin DOMAIN db
    /\ DOMAIN db # {}

\* the bucket of a score in hundredths, with inclusive lower bounds
bucket_of(score) ==
    IF score < 200 THEN "0-2"
    ELSE IF score < 400 THEN "2-4"
    ELSE IF score < 600 THEN "4-6"
    ELSE IF score < 800 THEN "6-8"
    ELSE IF score <= 1000 THEN "8-10"
    ELSE "none"

Buckets == {"0-2", "2-4", "4-6", "6-8", "8-10"}

\* C23: the statistics of an empty store are total_analyses 0, average_score
\* 0 and an empty distribution; those of any other store count every stored
\* analysis in exactly one bucket, that of its overall_score with inclusive
\* lower bounds, the last bucket reaching up to and including 10.0.
C23_Buckets ==
    [][ called("get_statistics") =>
          /\ reply'.code = 200
          /\ IF DOMAIN db = {}
               THEN /\ reply'.body.total_analyses = 0
                    /\ reply'.body.average_score = 0
                    /\ DOMAIN reply'.body.score_distribution = {}
               ELSE /\ reply'.body.total_analyses = Cardinality(DOMAIN db)
                    /\ DOMAIN reply'.body.score_distribution = Buckets
                    /\ \A i \in DOMAIN db : bucket_of(db[i].overall_score) \in Buckets
                    /\ \A b \in Buckets :
                           reply'.body.score_distribution[b] =
                               Cardinality({i \in DOMAIN db :
                                              bucket_of(db[i].overall_score) = b}) ]_vars

\* the statistics of a store with a score just below a boundary and one on it
C23_Witness ==
    /\ reply # None
    /\ reply.endpoint = "get_statistics"
    /\ reply.code = 200
    /\ reply.body.total_analyses = 2
    /\ reply.body.score_distribution["6-8"] = 1
    /\ reply.body.score_distribution["8-10"] = 1
    /\ \E i, j \in DOMAIN db :
           db[i].overall_score = 790 /\ db[j].overall_score = 800

\* the score is reported as a one-decimal number in [0,10]
in_range_one_decimal(x) ==
    x.t = "num" /\ 0 <= x.v /\ x.v <= 1000 /\ x.v % 10 = 0

\* C24: the status of every returned Scorecard is denied, improvable or
\* feasible; a response that is complete and numeric but reports another
\* status does not fail the attempt: its Scorecard is returned with the
\* status feasible and with each score that was reported as a one-decimal
\* number in [0,10] as reported.
C24_StatusCoerced ==
    \A r \in Requests :
        /\ returned(r) => analysis_result[r]["status"] \in valid_statuses
        /\ (has_data(r) /\ complete(response[r].text.data)) =>
             LET d == response[r].text.data
             IN  (d["status"] \notin valid_statuses
                    /\ \A k \in score_keys : d[k].t = "num") =>
                     /\ genuine(r)
                     /\ parsed[r]["status"] = "feasible"
                     /\ analysis_result[r]["status"] = "feasible"
                     /\ \A k \in score_keys :
                            in_range_one_decimal(d[k]) => parsed[r][k] = d[k].v
                     /\ \A k \in detail_keys :
                            in_range_one_decimal(d[k]) =>
                                analysis_result[r][k] = d[k].v

\* a response with the status "ok" was returned as a feasible Scorecard
C24_Witness ==
    /\ has_data(1)
    /\ complete(response[1].text.data)
    /\ response[1].text.data["status"] = "ok"
    /\ response[1].text.data["overall_score"] = Num(750)
    /\ genuine(1)
    /\ analysis_result[1]["status"] = "feasible"
    /\ analysis_result[1]["overall_score"] = 750

\* a required key is missing, or one of the two texts is a string whose
\* stripped length is below 50
deficient(d) ==
    \/ \E k \in required_keys : k \notin DOMAIN d
    \/ \E k \in {"scientific_explanation", "recommendations"} :
           d[k].t = "text" /\ strip_len(d[k]) < 50

\* C25: an attempt whose response lacks a required key or has a text of
\* stripped length below 50 fails: no Scorecard is built from it, every
\* attempt up to it has failed, and either the retry follows (the attempt
\* was not the last of the budget) or, the budget being spent, the fallback
\* is returned.
C25_DeficientResponseFails ==
    \A r \in Requests :
        /\ (has_data(r) /\ deficient(response[r].text.data)) =>
             /\ parsed[r] = None
             /\ ~genuine(r)
             /\ failed[r] = attempt[r] + 1
             /\ pc[r] = "sleeping" =>
                  /\ attempt[r] + 1 < max_retries
                  /\ ENABLED NextAttempt(r)
             /\ pc[r] = "done" =>
                  /\ fallback(r)
                  /\ invocations[r] = max_retries
        /\ genuine(r) => ~deficient(response[r].text.data)

\* a response whose text has 49 characters between its whitespace failed
\* the first attempt, and the retry is due
C25_Witness ==
    /\ has_data(1)
    /\ pc[1] = "sleeping"
    /\ attempt[1] = 0
    /\ required_keys \subseteq DOMAIN response[1].text.data
    /\ response[1].text.data["recommendations"] = Text(3, 49, 2)

\* more than 60% of the channel values of the pixel data are in the bottom
\* third of 0..255
mass_in_bottom_third(pixels) ==
    LET low == {<<n, c>> \in (DOMAIN pixels) \X (1..3) : pixels[n][c] < 85}
    IN  10 * Cardinality(low) > 6 * 3 * Len(pixels)

\* request r had its image normalised
normalised(r) == processed[r] # None /\ processed[r].ok

\* C26: the facial pass applies the dark-image brightness correction to
\* every image it is given with more than 60% of its pixel-intensity mass
\* in the bottom third of 0..255, and changes the brightness of no other
\* image.
C26_DarkCorrectionIffDark ==
    \A r \in Requests :
        normalised(r) =>
            IF mass_in_bottom_third(processed[r].entering)
              THEN /\ \E n \in DOMAIN processed[r].optimized :
                          processed[r].optimized[n] = "Brightness(1.15)"
                   /\ processed[r].pixels
                          = Brightness(Brightness(processed[r].entering, 110), 115)
                        \/ processed[r].pixels
                          = Brightness(processed[r].entering, 115)
              ELSE processed[r].pixels = processed[r].entering

\* the enhancement sub-steps that did not raise on the image, in their order
succeeded(image) == SelectSeq(sub_steps, LAMBDA step : step \notin image.fails)

\* a failure of the enhancement did not reach the caller of process_image:
\* the image was normalised and the request went on to the remote call
not_surfaced(r) == normalised(r) /\ http[r] = None /\ pc[r] = "invoking"

\* C27: each enhancement sub-step is skippable on its own: the normalised
\* image carries every sub-step that did not fail, the one that failed being
\* passed over, and the failure is not surfaced.
C27_SubStepsIndependent ==
    \A r \in Requests :
        (upload[r] # None /\ upload[r].image.loads) =>
            /\ not_surfaced(r)
            /\ processed[r].enhanced = succeeded(upload[r].image)

\* C27 as amended: the four sub-steps are skipped as a whole.  When none
\* fails the image carries all four; when any of them fails it carries none
\* (the pipeline continues with the pixel data it had before the
\* enhancement), and the failure is not surfaced.
C27_EnhancementAllOrNothing ==
    \A r \in Requests :
        (upload[r] # None /\ upload[r].image.loads) =>
            /\ not_surfaced(r)
            /\ upload[r].image.fails = {} => processed[r].enhanced = sub_steps
            /\ upload[r].image.fails # {} =>
                   /\ processed[r].enhanced = <<>>
                   /\ processed[r].entering = upload[r].image.pixels

\* the sharpening failed on an image of dark and bright regions, after the
\* contrast and the brightness had been applied
C27_Witness ==
    /\ upload[1] # None
    /\ upload[1].image.fails = {"sharpness"}
    /\ upload[1].image.pixels
           = <<Grey(40), Grey(200), Grey(40), Grey(200), Grey(80)>>
    /\ Brightness(Contrast(upload[1].image.pixels, 110), 102)
           # upload[1].image.pixels
    /\ not_surfaced(1)
    /\ processed[1].entering = upload[1].image.pixels

\* C28: the step in which create_analysis answers a request adds the record
\* of that request to the store when the answer is a successful response,
\* and leaves the store as it is when the answer is an error (400 or 500);
\* no other step of an upload changes the store.
C28_StoredOnlyWhenAnswered200 ==
    [][ \A r \in Requests :
          /\ (http[r] = None /\ http'[r] # None) =>
               IF http'[r].code = 200
                 THEN /\ DOMAIN db' = DOMAIN db \cup {http'[r].id}
                      /\ http'[r].id \notin DOMAIN db
                 ELSE db' = db
          /\ (pc'[r] # pc[r] /\ http'[r] = None) => db' = db ]_vars

RECURSIVE counted(_, _)
\* the sum of the bucket counts of a distribution
counted(distribution, buckets) ==
    IF buckets = {} THEN 0
    ELSE LET b == CHOOSE x \in buckets : TRUE
         IN  distribution[b] + counted(distribution, buckets \ {b})

\* C29: every statistics response describes the store as it is at one
\* moment of the request, whatever uploads and deletes are in flight: the
\* request does not fail, total_analyses is the number of stored records,
\* the bucket counts sum to it, and average_score is the mean of these
\* records' overall_score, to the hundredth.
C29_StatisticsOfOneState ==
    [][ called("get_statistics") =>
          /\ reply'.code = 200
          /\ LET body == reply'.body
                 n == Cardinality(DOMAIN db)
             IN  /\ body.total_analyses = n
                 /\ counted(body.score_distribution,
                            DOMAIN body.score_distribution) = n
                 /\ 2 * Abs(n * body.average_score - total_score(DOMAIN db)) <= n ]_vars

\* statistics of a store with one record, answered while another upload
\* waits for the remote model
C29_Witness ==
    /\ reply # None
    /\ reply.endpoint = "get_statistics"
    /\ reply.code = 200
    /\ reply.body.total_analyses = 1
    /\ reply.body.average_score = 790
    /\ reply.body.score_distribution["6-8"] = 1
    /\ DOMAIN db = {1}
    /\ \E r \in Requests : pc[r] = "invoking"

\* the requests of the client that were passed on at a time in lo..hi
passed_within(client_ip, lo, hi) ==
    {i \in DOMAIN passed[client_ip] :
       lo <= passed[client_ip][i] /\ passed[client_ip][i] <= hi}

\* this step is __call__ handling a request
limited ==
    /\ now' = now
    /\ <<requests, passed, rate_response>>' # <<requests, passed, rate_response>>

\* s is what is left of t after dropping some of its oldest entries
is_suffix(s, t) ==
    /\ Len(s) <= Len(t)
    /\ s = SubSeq(t, Len(t) - Len(s) + 1, Len(t))

\* C30: of each client at most max_requests requests are passed on within
\* any window of window_seconds; a request is passed on exactly when fewer
\* than max_requests requests of its client were passed on in the window
\* that ends now, so that neither a request answered 429, which is not
\* recorded, nor a request of another client counts against it; and a
\* request changes nothing that is kept for another client.
C30_RateLimit ==
    /\ [](\A client_ip \in Clients, t \in 0..MaxTime :
            Cardinality(passed_within(client_ip, t, t + window_seconds))
                <= max_requests)
    /\ [][ limited =>
             LET client_ip == rate_response'.client
                 recent == passed_within(client_ip, now - window_seconds, now)
             IN  /\ rate_response'.status_code \in {200, 429}
                 /\ rate_response'.status_code = 200
                        <=> Cardinality(recent) < max_requests
                 /\ rate_response'.status_code = 429 =>
                        /\ passed' = passed
                        /\ is_suffix(requests'[client_ip], requests[client_ip])
                 /\ rate_response'.status_code = 200 =>
                        /\ passed'[client_ip] = Append(passed[client_ip], now)
                 /\ \A other \in Clients \ {client_ip} :
                        /\ requests'[other] = requests[other]
                        /\ passed'[other] = passed[other] ]_vars

\* a client that had two requests passed on has a third one passed on once
\* the first has left the window, while the other client has used up its
\* own requests
C30_Witness ==
    /\ rate_response # None
    /\ rate_response.client = "10.0.0.1"
    /\ rate_response.status_code = 200
    /\ passed["10.0.0.1"] = <<0, 1, 4>>
    /\ now = 4
    /\ Len(requests["10.0.0.2"]) = max_requests

====
